---- MODULE Spec2Model ----
(***************************************************************************)
(* A model of the nytsb terminal Spelling Bee: the puzzle descriptor       *)
(* (SpellingBee), the scoring and ranking functions, the sqlite            *)
(* persistence functions and the key-driven loop of main().                *)
(*                                                                         *)
(* Words are sequences of one-character strings.  The two sqlite tables    *)
(* are sequences of rows in rowid order.  A process is one run of main();  *)
(* the tables outlive it, everything else is rebuilt by the next run.      *)
(***************************************************************************)
EXTENDS Integers, Sequences, FiniteSets, TLC

VARIABLES
    bee,              \* the SpellingBee object: center, pangrams, answers, max_score
    today,            \* bee.date, the date of the puzzle this process loaded
    game,             \* table game: rows [id, game_date], UNIQUE(game_date)
    guess,            \* table guess: rows [game_id, word, correct], UNIQUE(word, game_id)
    game_id,          \* main's game_id
    valid_guesses,    \* main's valid_guesses list
    invalid_guesses,  \* main's invalid_guesses list
    valid,            \* bee.valid, the hive letters in their current order
    underline,        \* positions of hive that carry the "underline" style
    word,             \* word.plain, the in-progress word
    score,            \* score.plain, the decimal text of the score panel
    rank_name,        \* the RANKS name whose rank_table column is not dimmed
    message,          \* message.plain, the transient message
    pc,               \* "running", or the exception that ended the process
    ret               \* outcome of the last direct call of the persistence API

vars == <<bee, today, game, guess, game_id, valid_guesses, invalid_guesses, valid,
          underline, word, score, rank_name, message, pc, ret>>

session == <<bee, today, game_id, valid_guesses, invalid_guesses, valid, underline,
             word, score, rank_name, message, pc>>

----------------------------------------------------------------------------
\* Bounds of the model.

\* The guess table holds at most MaxRows rows.
MaxRows == 2

\* random.shuffle yields one of NumShuffles orders of the hive.
NumShuffles == 2

\* The dates a puzzle can carry, as day numbers.
Dates == {1, 2}

\* The words the player types (every prefix of one can be in the buffer).
Vocabulary ==
    { <<"A","B","C","D","E","F","G">>, <<"A","B","C","X">>,
      <<"B","C","D","E">>, <<"X","Y","Z">> }

\* The buffer contents on which the player presses Enter.
SubmitWords ==
    { <<>>, <<"X","Y","Z">>, <<"A","B","C","X">>, <<"B","C","D","E">>,
      <<"A","B","C","D">>, <<"A","B","C","D","E">>,
      <<"A","B","C","D","E","F","G">> }

\* The keys getch() delivers.
LetterKeys == {"A", "B", "C", "D", "E", "F", "G", "X", "Y", "Z", "a", "b"}
EnterKeys == {"LF", "CR"}
EraseKeys == {"DEL", "BS"}
OtherKeys == {"ESC", "1"}

----------------------------------------------------------------------------
\* Helpers on sequences.

Range(s) == {s[i] : i \in 1..Len(s)}

IsPrefix(p, s) == Len(p) <= Len(s) /\ SubSeq(s, 1, Len(p)) = p

Typable(w) == \E v \in Vocabulary : IsPrefix(w, v)

RECURSIVE Filter(_, _)
\* [r for r in rows if r in keep], order kept
Filter(rows, keep) ==
    IF rows = <<>> THEN <<>>
    ELSE (IF Head(rows) \in keep THEN <<Head(rows)>> ELSE <<>>)
         \o Filter(Tail(rows), keep)

RECURSIVE Column(_)
\* [r[0] for r in rows] of a SELECT word ...
Column(rows) ==
    IF rows = <<>> THEN <<>> ELSE <<Head(rows).word>> \o Column(Tail(rows))

----------------------------------------------------------------------------
\* str(), int() and str.upper() as main uses them.

Digit == <<"0", "1", "2", "3", "4", "5", "6", "7", "8", "9">>

DigitValue(c) == (CHOOSE i \in 1..10 : Digit[i] = c) - 1

RECURSIVE str(_)
str(n) == IF n < 10 THEN <<Digit[n + 1]>>
          ELSE str(n \div 10) \o <<Digit[(n % 10) + 1]>>

RECURSIVE int(_)
int(s) == IF Len(s) = 1 THEN DigitValue(s[1])
          ELSE 10 * int(SubSeq(s, 1, Len(s) - 1)) + DigitValue(s[Len(s)])

upper(k) == CASE k = "a" -> "A"
              [] k = "b" -> "B"
              [] OTHER -> k

isalpha(k) == k \in {"A", "B", "C", "D", "E", "F", "G", "X", "Y", "Z", "a", "b"}

----------------------------------------------------------------------------
\* The puzzle descriptor, SpellingBee.

RANKS ==
    << <<"Beginner", 0>>, <<"Good Start", 2>>, <<"Moving Up", 5>>,
       <<"Good", 8>>, <<"Solid", 15>>, <<"Nice", 25>>, <<"Great", 40>>,
       <<"Amazing", 50>>, <<"Genius", 70>>, <<"Queen Bee", 100>> >>

\* data["today"] of the provider: the centre letter comes first in validLetters
gameData ==
    [ centerLetter |-> "A",
      validLetters |-> <<"A", "B", "C", "D", "E", "F", "G">>,
      pangrams |-> << <<"A","B","C","D","E","F","G">> >>,
      answers |-> << <<"A","B","C","D","E","F","G">>, <<"A","B","C","D","E">> >> ]

bee_center == gameData.centerLetter

bee_pangrams == gameData.pangrams

bee_answers == gameData.answers

\* self.valid.insert(3, self.valid.pop(0))
bee_valid ==
    LET v == gameData.validLetters
    IN  SubSeq(v, 2, 4) \o <<v[1]>> \o SubSeq(v, 5, Len(v))

\* the pangram bonus decided by the puzzle's pangram list
RECURSIVE calculate_score_PangramList(_)
calculate_score_PangramList(word_list) ==
    IF word_list = <<>> THEN 0
    ELSE LET w == Head(word_list)
         IN  (IF Len(w) = 4 THEN 1 ELSE IF Len(w) > 4 THEN Len(w) ELSE 0)
             + (IF w \in Range(bee_pangrams) THEN 7 ELSE 0)
             + calculate_score_PangramList(Tail(word_list))

\* the loop with "score = 1" for "score += 1" in the four-letter branch
RECURSIVE score_Resets(_, _)
score_Resets(word_list, acc) ==
    IF word_list = <<>> THEN acc
    ELSE LET w == Head(word_list)
             a1 == IF Len(w) = 4 THEN 1
                   ELSE IF Len(w) > 4 THEN acc + Len(w) ELSE acc
             a2 == IF Cardinality(Range(w)) = 7 THEN a1 + 7 ELSE a1
         IN  score_Resets(Tail(word_list), a2)

calculate_score_Resets(word_list) == score_Resets(word_list, 0)

RECURSIVE calculate_score(_)
calculate_score(word_list) ==
    IF word_list = <<>> THEN 0
    ELSE LET w == Head(word_list)
         IN  (IF Len(w) = 4 THEN 1 ELSE IF Len(w) > 4 THEN Len(w) ELSE 0)
             + (IF Cardinality(Range(w)) = 7 THEN 7 ELSE 0)
             + calculate_score(Tail(word_list))

bee_max_score == calculate_score(bee_answers)

\* SpellingBee(): the object main holds as bee; its list valid is the
\* variable of that name
SpellingBee ==
    [ center |-> bee_center,
      pangrams |-> bee_pangrams,
      answers |-> bee_answers,
      max_score |-> bee_max_score ]

\* rank with a strict comparison: a tier is reached only above its percent
SpellingBee_rank_Strict(max_score, s) ==
    LET ok == {i \in 1..Len(RANKS) : s * 100 > RANKS[i][2] * max_score} \cup {1}
        best == CHOOSE i \in ok : \A j \in ok : RANKS[j][2] <= RANKS[i][2]
    IN  RANKS[best]

\* rank with the percentage taken modulo 100
SpellingBee_rank_Wraps(max_score, s) ==
    LET pct == ((s * 100) \div max_score) % 100
        ok == {i \in 1..Len(RANKS) : pct >= RANKS[i][2]}
        best == CHOOSE i \in ok : \A j \in ok : RANKS[j][2] <= RANKS[i][2]
    IN  RANKS[best]

\* max([l for l in RANKS if score / max_score * 100 >= l[1]], key=l[1]) for a
\* bee whose max_score is given; the quotient is compared exactly,
\* score * 100 >= l[1] * max_score, which is what the float expression
\* yields for every 0 <= score <= max_score < 1500
SpellingBee_rank(max_score, s) ==
    LET ok == {i \in 1..Len(RANKS) : s * 100 >= RANKS[i][2] * max_score}
        best == CHOOSE i \in ok : \A j \in ok : RANKS[j][2] <= RANKS[i][2]
    IN  RANKS[best]

\* bee.rank(score) of the puzzle of the day
rank(s) == SpellingBee_rank(bee_max_score, s)

Rotate(s, k) == [i \in 1..Len(s) |-> s[((i - 1 + k) % Len(s)) + 1]]

\* the orders random.shuffle(self.valid) can leave
shuffle_letters == {Rotate(bee_valid, k) : k \in 0..(NumShuffles - 1)}

----------------------------------------------------------------------------
\* The persistence functions.

\* the INSERT INTO game without the SELECT before it
get_or_create_game_AlwaysInserts(d, g) ==
    [id |-> Len(g) + 1, game |-> Append(g, [id |-> Len(g) + 1, game_date |-> d])]

\* SELECT id FROM game WHERE game_date = ? ... else INSERT INTO game
get_or_create_game(d, g) ==
    LET hit == {i \in 1..Len(g) : g[i].game_date = d}
    IN  IF hit # {}
        THEN [id |-> g[CHOOSE i \in hit : \A j \in hit : i <= j].id, game |-> g]
        ELSE [id |-> Len(g) + 1,
              game |-> Append(g, [id |-> Len(g) + 1, game_date |-> d])]

\* the two SELECT word FROM guess WHERE game_id = ? AND correct = ...
resumed_game(gid, t) ==
    << Column(Filter(t, {r \in Range(t) : r.game_id = gid /\ r.correct = 1})),
       Column(Filter(t, {r \in Range(t) : r.game_id = gid /\ r.correct = 0})) >>

\* the row written with its correct flag dropped
Row_FlagDropped(w, correct, gid) == [game_id |-> gid, word |-> w, correct |-> 0]

\* the row (game_id, word, correct) of an INSERT or REPLACE; True is stored as 1
Row(w, correct, gid) ==
    [game_id |-> gid, word |-> w, correct |-> IF correct THEN 1 ELSE 0]

Conflicts(w, gid, t) == {r \in Range(t) : r.word = w /\ r.game_id = gid}

\* nytsb.record_guess: INSERT INTO guess; UNIQUE(word, game_id) makes the
\* statement raise sqlite3.IntegrityError and leave the table as it was
record_guess(w, correct, gid, t) ==
    IF Conflicts(w, gid, t) # {}
    THEN [raised |-> "IntegrityError", guess |-> t]
    ELSE [raised |-> "", guess |-> Append(t, Row(w, correct, gid))]

\* db.record_guess: REPLACE INTO guess deletes the conflicting row and
\* inserts the new one
db_record_guess(w, correct, gid, t) ==
    [raised |-> "",
     guess |-> Append(Filter(t, Range(t) \ Conflicts(w, gid, t)),
                      Row(w, correct, gid))]

----------------------------------------------------------------------------
\* main(): start of a process.

\* the repaint at the end of the loop body: hive positions whose letter
\* occurs in the word
Repaint(h, w) == {i \in 1..Len(h) : h[i] \in Range(w)}

Start(d, g, t, order) ==
    LET goc == get_or_create_game(d, g)
        res == resumed_game(goc.id, t)
        sc == str(calculate_score(res[1]))
    IN  /\ bee' = SpellingBee
        /\ today' = d
        /\ game' = goc.game
        /\ game_id' = goc.id
        /\ valid_guesses' = res[1]
        /\ invalid_guesses' = res[2]
        /\ valid' = order
        /\ underline' = {}
        /\ word' = <<>>
        /\ score' = sc
        /\ rank_name' = rank(int(sc))[1]
        /\ message' = ""
        /\ pc' = "running"

Init ==
    /\ ret = [op |-> "", raised |-> ""]
    /\ guess = <<>>
    /\ \E d \in Dates, order \in shuffle_letters :
         LET goc == get_or_create_game(d, <<>>)
         IN  /\ bee = SpellingBee
             /\ today = d
             /\ game = goc.game
             /\ game_id = goc.id
             /\ valid_guesses = <<>>
             /\ invalid_guesses = <<>>
             /\ valid = order
             /\ underline = {}
             /\ word = <<>>
             /\ score = str(calculate_score(<<>>))
             /\ rank_name = rank(int(str(calculate_score(<<>>))))[1]
             /\ message = ""
             /\ pc = "running"

\* the process ends (a crash or a signal) and main() is run again, the same
\* day or a later one
Restart ==
    /\ \E d \in Dates, order \in shuffle_letters :
         d >= today /\ Start(d, game, guess, order)
    /\ UNCHANGED <<guess, ret>>

----------------------------------------------------------------------------
\* main(): the loop body, one action per branch.  Every branch starts with
\* letter = str(getch()).upper() and message.truncate(0).

\* the test with valid_guesses left out
already_found_FoundIgnored(w, vg, ig) == w \in Range(ig)

\* word.plain in valid_guesses + invalid_guesses
already_found(w, vg, ig) == w \in Range(vg \o ig)

\* the chain of len / valid letters / center tests of the rejected branch
on_incorrect_guess(w) ==
    IF Len(w) < 4 THEN "Too short"
    ELSE IF \E i \in 1..Len(w) : w[i] \notin Range(valid) THEN "Bad letters"
    ELSE IF bee.center \notin Range(w) THEN "Missing center letter"
    ELSE "Not in word list"

\* the message of the accepted branch: random.choice for a non-pangram
on_correct_guess(w) ==
    IF w \in Range(bee.pangrams) THEN {"Pangram! :tada:"}
    ELSE {"Nice!", "Awesome!", "Good!"}

\* the write a Submit performs: record_guess, or the statement failing in
\* the store (sqlite3.OperationalError) before it changes anything
Write(w, correct, gid, t, fails) ==
    IF fails THEN [raised |-> "OperationalError", guess |-> t]
    ELSE record_guess(w, correct, gid, t)

\* the "Already found" branch writing the guess once more
Repeat_Records ==
    LET wr == record_guess(word, word \in Range(bee.answers), game_id, guess)
    IN  /\ guess' = wr.guess
        /\ pc' = IF wr.raised # "" THEN wr.raised ELSE pc
        /\ message' = "Already found"
        /\ word' = <<>>
        /\ underline' = Repaint(valid, <<>>)
        /\ UNCHANGED <<valid_guesses, score>>

\* the "Already found" branch up to the repaint
Repeat ==
    /\ message' = "Already found"
    /\ word' = <<>>
    /\ underline' = Repaint(valid, <<>>)
    /\ UNCHANGED <<guess, valid_guesses, score, pc>>

\* the accepted branch with the score text left as it was
Accept_ScoreKept(fails) ==
    LET found == Append(valid_guesses, word)
        wr == Write(word, TRUE, game_id, guess, fails)
    IN  /\ Len(wr.guess) <= MaxRows
        /\ valid_guesses' = found
        /\ guess' = wr.guess
        /\ pc' = IF wr.raised # "" THEN wr.raised ELSE pc
        /\ message' \in on_correct_guess(word)
        /\ word' = <<>>
        /\ underline' = Repaint(valid, <<>>)
        /\ UNCHANGED score

\* the accepted branch scoring the new word alone
Accept_ScoreOfWord(fails) ==
    LET found == Append(valid_guesses, word)
        wr == Write(word, TRUE, game_id, guess, fails)
    IN  /\ Len(wr.guess) <= MaxRows
        /\ valid_guesses' = found
        /\ guess' = wr.guess
        /\ pc' = IF wr.raised # "" THEN wr.raised ELSE pc
        /\ score' = str(calculate_score(<<word>>))
        /\ message' \in on_correct_guess(word)
        /\ word' = <<>>
        /\ underline' = Repaint(valid, <<>>)

\* the accepted branch up to the repaint
Accept(fails) ==
    LET found == Append(valid_guesses, word)
        wr == Write(word, TRUE, game_id, guess, fails)
    IN  /\ Len(wr.guess) <= MaxRows
        /\ valid_guesses' = found
        /\ guess' = wr.guess
        /\ IF wr.raised # ""
           THEN /\ pc' = wr.raised
                /\ message' = ""
                /\ UNCHANGED <<word, score, underline>>
           ELSE /\ pc' = pc
                /\ score' = str(calculate_score(found))
                /\ message' \in on_correct_guess(word)
                /\ word' = <<>>
                /\ underline' = Repaint(valid, <<>>)

\* the rejected branch without its record_guess
Reject_NotRecorded(fails) ==
    /\ pc' = pc
    /\ message' = on_incorrect_guess(word)
    /\ word' = <<>>
    /\ underline' = Repaint(valid, <<>>)
    /\ UNCHANGED <<guess, valid_guesses, score>>

\* the rejected branch up to the repaint
Reject(fails) ==
    LET wr == Write(word, FALSE, game_id, guess, fails)
    IN  /\ Len(wr.guess) <= MaxRows
        /\ guess' = wr.guess
        /\ IF wr.raised # ""
           THEN /\ pc' = wr.raised
                /\ message' = ""
                /\ UNCHANGED <<word, underline>>
           ELSE /\ pc' = pc
                /\ message' = on_incorrect_guess(word)
                /\ word' = <<>>
                /\ underline' = Repaint(valid, <<>>)
        /\ UNCHANGED <<valid_guesses, score>>

\* Enter
Submit(k, fails) ==
    /\ pc = "running"
    /\ word \in SubmitWords
    /\ IF already_found(word, valid_guesses, invalid_guesses)
       THEN Repeat
       ELSE IF word \in Range(bee.answers)
       THEN Accept(fails)
       ELSE Reject(fails)
    /\ UNCHANGED <<bee, today, game, game_id, invalid_guesses, valid, rank_name, ret>>

\* Spacebar clearing the word as Enter does
Shuffle_ClearsWord ==
    /\ pc = "running"
    /\ message' = ""
    /\ word' = <<>>
    /\ \E order \in shuffle_letters :
         /\ valid' = order
         /\ underline' = Repaint(order, word')
    /\ UNCHANGED <<bee, today, game, guess, game_id, valid_guesses, invalid_guesses,
                   score, rank_name, pc, ret>>

\* Spacebar with the underlines of the old order left in place
Shuffle_NoRepaint ==
    /\ pc = "running"
    /\ message' = ""
    /\ \E order \in shuffle_letters : valid' = order
    /\ UNCHANGED <<bee, today, game, guess, game_id, valid_guesses, invalid_guesses,
                   underline, word, score, rank_name, pc, ret>>

\* Spacebar: init_hive()
Shuffle ==
    /\ pc = "running"
    /\ message' = ""
    /\ \E order \in shuffle_letters :
         /\ valid' = order
         /\ underline' = Repaint(order, word)
    /\ UNCHANGED <<bee, today, game, guess, game_id, valid_guesses, invalid_guesses,
                   word, score, rank_name, pc, ret>>

\* "/": the help panel is painted and the loop continues
Help ==
    /\ pc = "running"
    /\ message' = ""
    /\ UNCHANGED <<bee, today, game, guess, game_id, valid_guesses, invalid_guesses,
                   valid, underline, word, score, rank_name, pc, ret>>

\* word.right_crop(1)
right_crop(w) == IF w = <<>> THEN w ELSE SubSeq(w, 1, Len(w) - 1)

Backspace(k) ==
    /\ pc = "running"
    /\ message' = ""
    /\ word' = right_crop(word)
    /\ underline' = Repaint(valid, word')
    /\ UNCHANGED <<bee, today, game, guess, game_id, valid_guesses, invalid_guesses,
                   valid, score, rank_name, pc, ret>>

\* not curses.ascii.isalpha(letter): continue
Ignore(k) ==
    /\ pc = "running"
    /\ ~isalpha(upper(k))
    /\ message' = ""
    /\ UNCHANGED <<bee, today, game, guess, game_id, valid_guesses, invalid_guesses,
                   valid, underline, word, score, rank_name, pc, ret>>

\* a letter is appended, whether or not it is a letter of the hive
Type(k) ==
    /\ pc = "running"
    /\ isalpha(upper(k))
    /\ Typable(Append(word, upper(k)))
    /\ message' = ""
    /\ word' = Append(word, upper(k))
    /\ underline' = Repaint(valid, word')
    /\ UNCHANGED <<bee, today, game, guess, game_id, valid_guesses, invalid_guesses,
                   valid, score, rank_name, pc, ret>>

Key ==
    \/ Shuffle
    \/ Help
    \/ \E k \in EnterKeys : Submit(k, FALSE)
    \/ \E k \in EraseKeys : Backspace(k)
    \/ \E k \in OtherKeys : Ignore(k)
    \/ \E k \in LetterKeys : Type(k)

Next == Key \/ Restart

Spec == Init /\ [][Next]_vars

\* the same program over a store whose writes can fail
StoreFails == \E k \in EnterKeys : Submit(k, TRUE)

NextFail == Next \/ StoreFails

SpecFail == Init /\ [][NextFail]_vars

----------------------------------------------------------------------------
\* ui.py: Screen.hint_panel over the same bee.

\* list.sort(key=len): a stable sort by length
RECURSIVE sort(_)
sort(s) ==
    IF s = <<>> THEN s
    ELSE LET m == CHOOSE i \in 1..Len(s) :
                    /\ \A j \in 1..Len(s) : Len(s[i]) <= Len(s[j])
                    /\ \A j \in 1..(i - 1) : Len(s[j]) > Len(s[i])
         IN  <<s[m]>> \o sort(SubSeq(s, 1, m - 1) \o SubSeq(s, m + 1, Len(s)))

\* the panel built from a list cut down to its shortest words
HintPanel_Truncates ==
    /\ pc = "running"
    /\ bee' = [bee EXCEPT !.answers = SubSeq(sort(bee.answers), 1, 1)]
    /\ UNCHANGED <<today, game, guess, game_id, valid_guesses, invalid_guesses,
                   valid, underline, word, score, rank_name, message, pc, ret>>

\* hint_panel(valid_guesses, invalid_guesses): self._bee.answers.sort(key=len),
\* the rest builds the panel
HintPanel ==
    /\ pc = "running"
    /\ bee' = [bee EXCEPT !.answers = sort(bee.answers)]
    /\ UNCHANGED <<today, game, guess, game_id, valid_guesses, invalid_guesses,
                   valid, underline, word, score, rank_name, message, pc, ret>>

\* one process with both views
NextHint == Key \/ HintPanel

SpecHint == Init /\ [][NextHint]_vars

----------------------------------------------------------------------------
\* The persistence functions called directly, as a client of the store calls
\* them; ret records the call and what it returned or raised.

\* The dates and words of the direct calls.
ApiDates == {1, 2, 3}

ApiWords == { <<"O","T","T","E","R">>, <<"X","Y","Z">> }

GameIds == {game[i].id : i \in 1..Len(game)}

CallGetOrCreateGame(d) ==
    LET goc == get_or_create_game(d, game)
    IN  /\ game' = goc.game
        /\ ret' = [op |-> "get_or_create_game", raised |-> "",
                   date |-> d, id |-> goc.id]
        /\ UNCHANGED <<guess, session>>

\* record_guess of nytsb.py
CallRecordGuess(w, correct, gid) ==
    LET wr == record_guess(w, correct, gid, guess)
    IN  /\ Len(wr.guess) <= MaxRows
        /\ guess' = wr.guess
        /\ ret' = [op |-> "record_guess", raised |-> wr.raised,
                   word |-> w, correct |-> correct, game_id |-> gid]
        /\ UNCHANGED <<game, session>>

\* record_guess of db.py
CallDbRecordGuess(w, correct, gid) ==
    LET wr == db_record_guess(w, correct, gid, guess)
    IN  /\ Len(wr.guess) <= MaxRows
        /\ guess' = wr.guess
        /\ ret' = [op |-> "db.record_guess", raised |-> wr.raised,
                   word |-> w, correct |-> correct, game_id |-> gid]
        /\ UNCHANGED <<game, session>>

CallResumedGame(gid) ==
    LET res == resumed_game(gid, guess)
    IN  /\ ret' = [op |-> "resumed_game", raised |-> "", game_id |-> gid,
                   valid_guesses |-> res[1], invalid_guesses |-> res[2]]
        /\ UNCHANGED <<game, guess, session>>

NextDb ==
    \/ \E d \in ApiDates : CallGetOrCreateGame(d)
    \/ \E w \in ApiWords, c \in BOOLEAN, gid \in GameIds :
         CallRecordGuess(w, c, gid)
    \/ \E w \in ApiWords, c \in BOOLEAN, gid \in GameIds :
         CallDbRecordGuess(w, c, gid)
    \/ \E gid \in GameIds : CallResumedGame(gid)

SpecDb == Init /\ [][NextDb]_vars

----------------------------------------------------------------------------
\* Vocabulary of the properties.

XYZ == <<"X", "Y", "Z">>
ABCDE == <<"A", "B", "C", "D", "E">>
ABCDEFG == <<"A", "B", "C", "D", "E", "F", "G">>

\* an Enter key handled over a working store
SubmitStep == \E k \in EnterKeys : Submit(k, FALSE)

\* the words of this game the store holds as rejected
Rejected == {r.word : r \in {x \in Range(guess) : x.game_id = game_id /\ x.correct = 0}}

\* the words rejected since this process started: invalid_guesses holds the
\* ones rejected before
RejectedInSession == Rejected \ Range(invalid_guesses)

NoDuplicates(s) == \A i, j \in 1..Len(s) : s[i] = s[j] => i = j

\* the rows of table t for (gid, w)
RowsOf(t, gid, w) == {i \in 1..Len(t) : t[i].game_id = gid /\ t[i].word = w}

\* The classifier as the design states it: the first rule that matches, over
\* the found words and every word rejected so far in the game.
Classify(w) ==
    IF w \in Range(valid_guesses) \cup Rejected THEN "AlreadyFound"
    ELSE IF Len(w) < 4 THEN "TooShort"
    ELSE IF ~(Range(w) \subseteq Range(gameData.validLetters)) THEN "InvalidLetters"
    ELSE IF gameData.centerLetter \notin Range(w) THEN "MissingCenter"
    ELSE IF w \notin Range(gameData.answers) THEN "NotInWordList"
    ELSE "Accepted"

\* What a step of the loop reported, read off the state it leaves.
Outcome(pc2, message2, found, found2) ==
    IF pc2 # "running" THEN pc2
    ELSE IF found2 # found THEN "Accepted"
    ELSE CASE message2 = "Already found" -> "AlreadyFound"
           [] message2 = "Too short" -> "TooShort"
           [] message2 = "Bad letters" -> "InvalidLetters"
           [] message2 = "Missing center letter" -> "MissingCenter"
           [] message2 = "Not in word list" -> "NotInWordList"
           [] OTHER -> "none"

----------------------------------------------------------------------------
\* C1: a word rejected earlier in the session, submitted again, is reported
\* "Already found" and writes nothing; the first rejected submission of a
\* word leaves exactly one row (word, correct = 0).
C1_ResubmitRejectedIsAlreadyFound ==
    [][ SubmitStep =>
          /\ word \in RejectedInSession =>
               /\ pc' = "running"
               /\ message' = "Already found"
               /\ guess' = guess
          /\ (Classify(word) \notin {"AlreadyFound", "Accepted"}) =>
               /\ Cardinality(RowsOf(guess', game_id, word)) = 1
               /\ Row(word, FALSE, game_id) \in Range(guess') ]_vars

\* C2: the outcome of every Submit is the first matching rule of the order
\* AlreadyFound, TooShort, InvalidLetters, MissingCenter, NotInWordList,
\* Accepted.
C2_OutcomeIsFirstMatchingRule ==
    [][ SubmitStep =>
          Outcome(pc', message', valid_guesses, valid_guesses') = Classify(word)
      ]_vars

\* C2, where the submitted word was not rejected earlier in the session: the
\* outcome is the first matching rule.
C2_OutcomeOfOtherSubmits ==
    [][ (SubmitStep /\ word \notin RejectedInSession) =>
          Outcome(pc', message', valid_guesses, valid_guesses') = Classify(word)
      ]_vars

\* C3: valid_guesses never holds a word twice and holds answers only.
C3_FoundWordsDistinctAnswers ==
    /\ NoDuplicates(valid_guesses)
    /\ Range(valid_guesses) \subseteq Range(bee_answers)

C3_Witness ==
    /\ valid_guesses = <<ABCDE, ABCDEFG>>
    /\ pc = "running"

\* C4: the score shown is calculate_score of valid_guesses; it is 5 after
\* ABCDE and 19 after ABCDE and ABCDEFG.
C4_ScoreIsScoreOfFound ==
    /\ score = str(calculate_score(valid_guesses))
    /\ valid_guesses = <<ABCDE>> => score = <<"5">>
    /\ valid_guesses = <<ABCDE, ABCDEFG>> => score = <<"1", "9">>

C4_Witness ==
    /\ valid_guesses = <<ABCDE, ABCDEFG>>
    /\ score = <<"1", "9">>
    /\ message = "Pangram! :tada:"

\* a direct call of either record_guess
RecordOps == {"record_guess", "db.record_guess"}

\* C5: record_guess(id, w, false) followed by record_guess(id, w, true) does
\* not raise and leaves exactly one row for (id, w), with correct = 1.
C5_RecordGuessIsUpsert ==
    [][ ( /\ ret'.op \in RecordOps
          /\ ret' # ret
          /\ ret'.correct
          /\ Row(ret'.word, FALSE, ret'.game_id) \in Range(guess) ) =>
          /\ ret'.raised = ""
          /\ Cardinality(RowsOf(guess', ret'.game_id, ret'.word)) = 1
          /\ Row(ret'.word, TRUE, ret'.game_id) \in Range(guess') ]_vars

\* C5 for record_guess of db.py alone.
C5_DbRecordGuessIsUpsert ==
    [][ ( /\ ret'.op = "db.record_guess"
          /\ ret' # ret
          /\ Conflicts(ret'.word, ret'.game_id, guess) # {} ) =>
          /\ ret'.raised = ""
          /\ Cardinality(RowsOf(guess', ret'.game_id, ret'.word)) = 1
          /\ Row(ret'.word, ret'.correct, ret'.game_id) \in Range(guess') ]_vars

\* C6: a Submit whose write fails leaves the session running, with the
\* decision it took in memory kept.
C6_WriteFailureDoesNotHalt ==
    [][ (StoreFails /\ ~already_found(word, valid_guesses, invalid_guesses)) =>
          /\ pc' = "running"
          /\ word \in Range(bee_answers) =>
               /\ valid_guesses' = Append(valid_guesses, word)
               /\ score' = str(calculate_score(valid_guesses')) ]_vars

\* C7: what a restart for the same date would load as accepted words is
\* valid_guesses, and the score derived from it is the score shown.
C7_ResumeFidelity ==
    LET res == resumed_game(get_or_create_game(today, game).id, guess)
    IN  /\ res[1] = valid_guesses
        /\ calculate_score(res[1]) = int(score)

\* a process that resumed an accepted and a rejected word
C7_Witness ==
    /\ pc = "running"
    /\ Len(guess) = 2
    /\ guess[1] = Row(ABCDE, TRUE, game_id)
    /\ guess[2] = Row(XYZ, FALSE, game_id)
    /\ valid_guesses = <<ABCDE>>
    /\ invalid_guesses = <<XYZ>>
    /\ score = <<"5">>

\* C8: submitting a word of valid_guesses again reports "Already found" and
\* changes neither valid_guesses, nor the score, nor the guess table.
C8_ResubmitFoundChangesNothing ==
    [][ (SubmitStep /\ word \in Range(valid_guesses)) =>
          /\ message' = "Already found"
          /\ pc' = "running"
          /\ UNCHANGED <<valid_guesses, score, guess>> ]_vars

\* "Already found" reported where only found words can have caused it
C8_Witness ==
    /\ message = "Already found"
    /\ valid_guesses # <<>>
    /\ invalid_guesses = <<>>
    /\ RejectedInSession = {}
    /\ pc = "running"

\* the game table has one row per date and one per id
GameKeys(g) ==
    \A i, j \in 1..Len(g) :
        (g[i].game_date = g[j].game_date \/ g[i].id = g[j].id) => i = j

\* C9: get_or_create_game returns the id of the one row of its date: the
\* row the date already had, or a new row with an id no other date has; no
\* call changes or removes a row.
C9_GetOrCreateGameIdempotent ==
    [][ ret'.op = "get_or_create_game" =>
          /\ GameKeys(game')
          /\ \A i \in 1..Len(game) : game'[i] = game[i]
          /\ \E i \in 1..Len(game') :
               /\ game'[i] = [id |-> ret'.id, game_date |-> ret'.date]
               /\ (i > Len(game)) =>
                    /\ Len(game') = Len(game) + 1
                    /\ \A j \in 1..Len(game) : game[j].game_date # ret'.date ]_vars

\* a call for the date of the first row, made when three dates have rows
C9_Witness ==
    /\ Len(game) = 3
    /\ ret.op = "get_or_create_game"
    /\ ret.date = game[1].game_date
    /\ ret.id = game[1].id

\* C10: the rank marked in the rank table is the rank of the current score.
C10_RankFollowsScore ==
    rank_name = rank(int(score))[1]

\* C11: the quit key ends the session: the step that handles ESC leaves no
\* running loop behind it.
C11_EscQuits ==
    [][ (pc = "running" /\ Ignore("ESC")) => pc' # "running" ]_vars

----------------------------------------------------------------------------
\* calculate_score and SpellingBee.rank applied to inputs of their own: the
\* initial state holds the arguments in ret, the one step applies the function.

\* A word list has at most MaxWords words.
MaxWords == 3

\* max_score ranges over 1..MaxMaxScore.
MaxMaxScore == 40

\* The words of the lists: 3, 4 and 5 letters, a pangram, 7 letters with a
\* repeat, 8 letters of which 7 distinct (no pangram of the puzzle's list).
ScoreWords ==
    { <<"A","B","C">>, <<"A","B","C","D">>, <<"A","B","C","D","E">>,
      <<"A","B","C","D","E","F","G">>, <<"A","B","C","D","E","F","A">>,
      <<"G","F","E","D","C","B","A","G">> }

WordLists == UNION {[1..n -> ScoreWords] : n \in 0..MaxWords}

InitPure ==
    /\ bee = SpellingBee
    /\ today = 1
    /\ game = <<[id |-> 1, game_date |-> 1]>>
    /\ guess = <<>>
    /\ game_id = 1
    /\ valid_guesses = <<>>
    /\ invalid_guesses = <<>>
    /\ valid = bee_valid
    /\ underline = {}
    /\ word = <<>>
    /\ score = str(0)
    /\ rank_name = rank(0)[1]
    /\ message = ""
    /\ pc = "running"
    /\ \/ \E wl \in WordLists :
            ret = [op |-> "args", raised |-> "", word_list |-> wl]
       \/ \E m \in 1..MaxMaxScore : \E s \in 0..m :
            ret = [op |-> "args", raised |-> "", max_score |-> m, score |-> s]

ApplyCalculateScore ==
    /\ ret.op = "args"
    /\ "word_list" \in DOMAIN ret
    /\ ret' = [op |-> "calculate_score", raised |-> "",
               word_list |-> ret.word_list,
               result |-> calculate_score(ret.word_list)]
    /\ UNCHANGED <<game, guess, session>>

ApplyRank ==
    /\ ret.op = "args"
    /\ "max_score" \in DOMAIN ret
    /\ ret' = [op |-> "rank", raised |-> "",
               max_score |-> ret.max_score, score |-> ret.score,
               result |-> SpellingBee_rank(ret.max_score, ret.score)]
    /\ UNCHANGED <<game, guess, session>>

NextPure == ApplyCalculateScore \/ ApplyRank

SpecPure == InitPure /\ [][NextPure]_vars

----------------------------------------------------------------------------
\* the points of one word as the design states them
WordPoints(w) ==
    (IF Len(w) = 4 THEN 1 ELSE IF Len(w) > 4 THEN Len(w) ELSE 0)
    + (IF Cardinality({w[i] : i \in 1..Len(w)}) = 7 THEN 7 ELSE 0)

\* the sum of WordPoints over the first n words of wl
RECURSIVE SumPoints(_, _)
SumPoints(wl, n) == IF n = 0 THEN 0 ELSE SumPoints(wl, n - 1) + WordPoints(wl[n])

\* C12: calculate_score(words) is the sum over the words of 1 for four
\* letters, the length for more, 0 for fewer, plus 7 for exactly 7 distinct
\* characters of the word itself; bee.max_score is that sum over the answers.
C12_ScoreRule ==
    /\ bee_max_score = SumPoints(gameData.answers, Len(gameData.answers))
    /\ ret.op = "calculate_score" =>
         /\ ret.result = SumPoints(ret.word_list, Len(ret.word_list))
         /\ ret.word_list = << <<"A","B","C">> >> => ret.result = 0
         /\ ret.word_list = << <<"A","B","C","D">> >> => ret.result = 1
         /\ ret.word_list = << ABCDE >> => ret.result = 5
         /\ ret.word_list = << ABCDEFG >> => ret.result = 14
         /\ ret.word_list = << <<"A","B","C","D","E","F","A">> >> => ret.result = 7
         /\ ret.word_list = << <<"G","F","E","D","C","B","A","G">> >> => ret.result = 15

\* a list with a word of 7 distinct letters that is no pangram of the puzzle
C12_Witness ==
    /\ ret.op = "calculate_score"
    /\ ret.word_list = << <<"G","F","E","D","C","B","A","G">>,
                          <<"A","B","C","D">>, <<"A","B","C">> >>
    /\ ret.result = 16

\* has the tier r its percent reached by score s of max_score m
Reached(r, m, s) == r[2] * m <= s * 100

\* C13: for 0 <= score <= max_score, max_score > 0, rank returns the tier of
\* RANKS with the greatest percent among those reached; Beginner at score 0;
\* Queen Bee exactly when score = max_score.
C13_RankIsHighestReachedTier ==
    ret.op = "rank" =>
        LET r == ret.result
            m == ret.max_score
            s == ret.score
        IN  /\ r \in Range(RANKS)
            /\ Reached(r, m, s)
            /\ \A t \in Range(RANKS) : Reached(t, m, s) => t[2] <= r[2]
            /\ s = 0 => r = <<"Beginner", 0>>
            /\ (r = <<"Queen Bee", 100>>) <=> (s = m)

\* a score exactly on the percent of a tier
C13_Witness ==
    /\ ret.op = "rank"
    /\ ret.max_score = 40
    /\ ret.score = 10
    /\ ret.result = <<"Nice", 25>>

\* C14: for a fixed max_score the percent of the rank never decreases with
\* the score: every lower score has a rank of at most this one.
C14_RankMonotonic ==
    ret.op = "rank" =>
        \A s1 \in 0..ret.score :
            SpellingBee_rank(ret.max_score, s1)[2] <= ret.result[2]

C14_Witness ==
    /\ ret.op = "rank"
    /\ ret.max_score = 40
    /\ ret.score = 39
    /\ ret.result = <<"Genius", 70>>

\* the list wl in the order p
Reordered(wl, p) == [i \in 1..Len(wl) |-> wl[p[i]]]

\* C15: the score is not negative and is the same for every reordering of
\* the list.
C15_ScoreOrderIndependent ==
    ret.op = "calculate_score" =>
        /\ ret.result >= 0
        /\ \A p \in Permutations(1..Len(ret.word_list)) :
               calculate_score(Reordered(ret.word_list, p)) = ret.result

C15_Witness ==
    /\ ret.op = "calculate_score"
    /\ ret.word_list = << ABCDEFG, <<"A","B","C","D">>, ABCDE >>
    /\ ret.result = 20

----------------------------------------------------------------------------
\* C16: every Submit whose outcome is not AlreadyFound leaves, when its step
\* is over, one row for (game, word), with correct = 1 exactly when the
\* outcome was Accepted and 0 for every rejection; where no rule of the
\* classifier says AlreadyFound that row is the one this Submit appended.
C16_SubmitIsRecorded ==
    [][ SubmitStep =>
          LET out == Outcome(pc', message', valid_guesses, valid_guesses')
          IN  /\ out # "AlreadyFound" =>
                   /\ Cardinality(RowsOf(guess', game_id, word)) = 1
                   /\ \A i \in RowsOf(guess', game_id, word) :
                        guess'[i].correct = (IF out = "Accepted" THEN 1 ELSE 0)
              /\ Classify(word) # "AlreadyFound" =>
                   /\ out \in {"Accepted", "TooShort", "InvalidLetters",
                               "MissingCenter", "NotInWordList"}
                   /\ guess' = Append(guess, [game_id |-> game_id, word |-> word,
                                  correct |-> IF out = "Accepted" THEN 1 ELSE 0])
      ]_vars

\* an accepted and then a rejected Submit, both recorded
C16_Witness ==
    /\ pc = "running"
    /\ message = "Too short"
    /\ Len(guess) = 2
    /\ guess[1] = [game_id |-> game_id, word |-> ABCDE, correct |-> 1]
    /\ guess[2] = [game_id |-> game_id, word |-> XYZ, correct |-> 0]

\* C17: a letter key appends its upper case to word, whether or not it is a
\* letter of the hive; Backspace removes the last character and changes
\* nothing on an empty word; no other key changes word; word is empty after
\* every Submit, whatever its outcome.
C17_BufferFollowsKeys ==
    [][ /\ \A k \in LetterKeys : Type(k) => word' = word \o <<upper(k)>>
        /\ (\E k \in EraseKeys : Backspace(k)) =>
             /\ word = <<>> => word' = <<>>
             /\ word # <<>> => word = word' \o <<word[Len(word)]>>
        /\ (Shuffle \/ Help \/ \E k \in OtherKeys : Ignore(k)) => word' = word
        /\ SubmitStep => word' = <<>> ]_vars

\* C17, where the submitted word was not rejected earlier in the session.
C17_BufferOfOtherSubmits ==
    [][ /\ \A k \in LetterKeys : Type(k) => word' = word \o <<upper(k)>>
        /\ (\E k \in EraseKeys : Backspace(k)) =>
             /\ word = <<>> => word' = <<>>
             /\ word # <<>> => word = word' \o <<word[Len(word)]>>
        /\ (Shuffle \/ Help \/ \E k \in OtherKeys : Ignore(k)) => word' = word
        /\ (SubmitStep /\ word \notin RejectedInSession) => word' = <<>> ]_vars

\* C18: Shuffle leaves the hive a permutation of the 7 valid letters, the
\* center among them, and leaves word, valid_guesses, invalid_guesses, score
\* and the stored rows as they were.
C18_ShuffleFrame ==
    [][ Shuffle =>
          /\ Len(valid') = 7
          /\ Range(valid') = Range(gameData.validLetters)
          /\ gameData.centerLetter \in Range(valid')
          /\ UNCHANGED <<word, valid_guesses, invalid_guesses, score, guess,
                         game>> ]_vars

\* a shuffled hive with a word in progress and a word found
C18_Witness ==
    /\ pc = "running"
    /\ valid = Rotate(bee_valid, 1)
    /\ word = <<"A", "B", "C", "X">>
    /\ valid_guesses = <<ABCDE>>
    /\ Len(guess) = 1

\* C19: the underlined hive letters are exactly the letters of the hive, in
\* its present order, that occur in word; after a Submit (the only step that
\* leaves a message) there is none.
C19_HighlightFollowsBuffer ==
    /\ underline = {i \in 1..Len(valid) : \E j \in 1..Len(word) : word[j] = valid[i]}
    /\ message # "" => underline = {} /\ word = <<>>

\* a word partly of hive letters over a shuffled hive
C19_Witness ==
    /\ pc = "running"
    /\ valid = Rotate(bee_valid, 1)
    /\ word = <<"A", "B", "C", "X">>
    /\ underline = {i \in 1..7 : valid[i] \in {"A", "B", "C"}}
    /\ Cardinality(underline) = 3

----------------------------------------------------------------------------
\* C20: no key and no view of a process changes the puzzle it holds: the
\* center letter, the set of valid letters, the set of answers, the pangrams
\* and max_score stay those of the provider's data, and max_score stays the
\* score of the answers.
C20_PuzzleImmutable ==
    [][ /\ bee'.center = bee.center
        /\ bee'.center = gameData.centerLetter
        /\ Range(valid') = Range(valid)
        /\ Len(valid') = Len(valid)
        /\ Range(valid') = Range(gameData.validLetters)
        /\ Range(bee'.answers) = Range(bee.answers)
        /\ Len(bee'.answers) = Len(bee.answers)
        /\ Range(bee'.answers) = Range(gameData.answers)
        /\ bee'.pangrams = bee.pangrams
        /\ bee'.pangrams = gameData.pangrams
        /\ bee'.max_score = bee.max_score
        /\ bee'.max_score = calculate_score(bee'.answers) ]_vars

\* the hint panel has sorted the answers, the hive is shuffled, a word is
\* found and another is just rejected
C20_Witness ==
    /\ pc = "running"
    /\ bee.answers = <<ABCDE, ABCDEFG>>
    /\ bee.answers # gameData.answers
    /\ valid = Rotate(bee_valid, 1)
    /\ valid_guesses = <<ABCDE>>
    /\ message = "Too short"

----------------------------------------------------------------------------
\* the words of this game the store holds as accepted
Found == {r.word : r \in {x \in Range(guess) : x.game_id = game_id /\ x.correct = 1}}

\* C21: in every reachable state the words of valid_guesses are the words
\* the store holds with correct = 1 for the game, and the words of
\* invalid_guesses are the words it holds with correct = 0.
C21_SessionAgreesWithStore ==
    /\ Range(valid_guesses) = Found
    /\ Range(invalid_guesses) = Rejected

\* C21, without the rejected words of this process: the found words agree
\* with the store, and invalid_guesses holds stored rejected words only.
C21_FoundAgreesWithStore ==
    /\ Range(valid_guesses) = Found
    /\ Range(invalid_guesses) \subseteq Rejected

\* C22: over a working store no sequence of keys ends the process with an
\* exception: the loop is running in every reachable state.
C22_NoUnhandledError ==
    pc = "running"

\* C22, apart from the Submit of a word rejected earlier in the session: no
\* other step ends the loop.
C22_OtherStepsKeepRunning ==
    [][ (pc = "running" /\ ~(SubmitStep /\ word \in RejectedInSession)) =>
          pc' = "running" ]_vars


\* C23: while the game is the same the score shown never decreases; it is
\* always between 0 and max_score, and it is max_score exactly when every
\* answer is among the found words.
C23_ScoreBounded ==
    [][ /\ game_id' = game_id => int(score') >= int(score)
        /\ 0 <= int(score) /\ int(score) <= bee.max_score
        /\ 0 <= int(score') /\ int(score') <= bee'.max_score
        /\ (int(score') = bee'.max_score) <=>
             (\A i \in 1..Len(gameData.answers) :
                 \E j \in 1..Len(valid_guesses') :
                     valid_guesses'[j] = gameData.answers[i]) ]_vars

\* every answer found, the shorter one last: the score is max_score
C23_Witness ==
    /\ pc = "running"
    /\ valid_guesses = <<ABCDEFG, ABCDE>>
    /\ int(score) = 19
    /\ int(score) = bee.max_score
    /\ message \in {"Nice!", "Awesome!", "Good!"}

====
